---- MODULE Spec2Model ----
(***************************************************************************)
(* Model of the Smart Workout Logger (src/py.py): the muscle-group and     *)
(* intensity classifiers, the history matcher, the per-set progress rule,  *)
(* the exercise-block session state and the append-only CSV log.           *)
(*                                                                         *)
(* Text is a sequence of one-character strings, so that lower(), title(),  *)
(* strip(), int(), float() and the fuzzy score are computed, not assumed.  *)
(* A weight (a Python float) is kept in tenths of a kilogram: the weight   *)
(* inputs of the model carry at most one digit after the point.            *)
(***************************************************************************)
EXTENDS Integers, Sequences, FiniteSets, TLC

VARIABLES
    exercise_blocks,   \* st.session_state.exercise_blocks, as the sequence of block ids
    next_id,           \* st.session_state.next_id
    log_file,          \* LOG_FILE: [exists, headers, rows]; rows are the data lines
    rendered,          \* what the last script run rendered, one record per block
    log_rows,          \* log_rows at the end of the last script run
    outcome,           \* what the Save button's branch did in the last script run
    saves,             \* number of batches appended so far
    call               \* the last direct calls: [exercise_name, body_part, reps, intensity]

vars == <<exercise_blocks, next_id, log_file, rendered, log_rows, outcome, saves, call>>

None == "None"

Max(a, b) == IF a >= b THEN a ELSE b

\* the greatest element of a set of numbers, 0 for the empty set
MaxOf(S) == IF S = {} THEN 0 ELSE CHOOSE x \in S : \A y \in S : x >= y

\* the last element of a non-empty sequence
Last(s) == s[Len(s)]

-----------------------------------------------------------------------------
(* Python str methods used by the program *)

\* the lower-case letter of every upper-case one, and the converse
lower_map ==
    [A |-> "a", B |-> "b", C |-> "c", D |-> "d", E |-> "e", F |-> "f", G |-> "g",
     H |-> "h", I |-> "i", J |-> "j", K |-> "k", L |-> "l", M |-> "m", N |-> "n",
     O |-> "o", P |-> "p", Q |-> "q", R |-> "r", S |-> "s", T |-> "t", U |-> "u",
     V |-> "v", W |-> "w", X |-> "x", Y |-> "y", Z |-> "z"]
upper_map ==
    [a |-> "A", b |-> "B", c |-> "C", d |-> "D", e |-> "E", f |-> "F", g |-> "G",
     h |-> "H", i |-> "I", j |-> "J", k |-> "K", l |-> "L", m |-> "M", n |-> "N",
     o |-> "O", p |-> "P", q |-> "Q", r |-> "R", s |-> "S", t |-> "T", u |-> "U",
     v |-> "V", w |-> "W", x |-> "X", y |-> "Y", z |-> "Z"]
digit_map ==
    ("0" :> 0) @@ ("1" :> 1) @@ ("2" :> 2) @@ ("3" :> 3) @@ ("4" :> 4) @@
    ("5" :> 5) @@ ("6" :> 6) @@ ("7" :> 7) @@ ("8" :> 8) @@ ("9" :> 9)

IsUpper(c) == c \in DOMAIN lower_map
IsLower(c) == c \in DOMAIN upper_map
IsCased(c) == IsUpper(c) \/ IsLower(c)
IsDigit(c) == c \in DOMAIN digit_map
IsSpace(c) == c = " "

lower_char(c) == IF IsUpper(c) THEN lower_map[c] ELSE c
upper_char(c) == IF IsLower(c) THEN upper_map[c] ELSE c

\* the sequence f as a tuple of its values
Text(f) == SubSeq(f, 1, Len(f))

\* str.lower()
lower(s) == Text([i \in 1..Len(s) |-> lower_char(s[i])])

\* str.title(): a cased character is upper-cased after an uncased one (or at
\* the start) and lower-cased after a cased one
title(s) ==
    Text([i \in 1..Len(s) |->
            IF i = 1 \/ ~IsCased(s[i-1]) THEN upper_char(s[i]) ELSE lower_char(s[i])])

\* str.strip()
strip(s) ==
    LET keep == {i \in 1..Len(s) : ~IsSpace(s[i])}
    IN  IF keep = {} THEN <<>>
        ELSE LET lo == CHOOSE i \in keep : \A j \in keep : i <= j
                 hi == CHOOSE i \in keep : \A j \in keep : i >= j
             IN  SubSeq(s, lo, hi)

-----------------------------------------------------------------------------
(* Input alphabets: the texts a user types in the model's runs *)

TxtRow == <<"r","o","w">>
TxtRows == <<"R","O","W","S"," ">>
TxtCurl == <<"c","u","r","l">>
TxtSpace == <<" ">>
Txt60 == <<"6","0">>
Txt8 == <<"8">>
Txt13 == <<"1","3">>
TxtAbc == <<"a","b","c">>
TxtX == <<"x">>

\* names passed to detect_body_part directly
FnNames ==
    {<<"I","n","c","l","i","n","e"," ","B","e","n","c","h"," ","P","r","e","s","s">>,
     <<"x","y","z","a","b","c">>,
     <<"L","e","g"," ","C","u","r","l">>,
     <<"L","a","t"," ","R","a","i","s","e">>,
     <<"C","a","l","f"," ","R","a","i","s","e">>,
     <<"S","Q","U","A","T">>,
     <<"D","i","p"," ","R","o","w">>,
     <<"P","r","e","s">>,
     <<"C","o","r">>,
     <<"P","u","l">>,
     <<"J","o","g">>,
     <<"R","u","n">>}

\* every raw exercise name of the model
LogRaw == {<<>>, TxtSpace, TxtRow, TxtRows, TxtCurl}
KnownRaw == LogRaw \cup FnNames

-----------------------------------------------------------------------------
(* thefuzz.fuzz.partial_ratio *)

\* one row of the longest-common-subsequence table: entry j is the length for
\* (the prefix of a ending in character c, b[1..j]), from the previous row
\* (the same prefix without c); prev is non-decreasing, so the best match of c
\* is found over the positions k <= j of b that hold c
LcsRow(c, b, prev) ==
    SubSeq([j \in 1..Len(b) |->
               MaxOf({prev[j]} \cup {IF k = 1 THEN 1 ELSE prev[k-1] + 1 :
                                         k \in {k \in 1..j : b[k] = c}})],
           1, Len(b))

RECURSIVE LcsRows(_, _, _)
\* the table, row by row: rows[i + 1] is the row of a[1..i]
LcsRows(a, b, rows) ==
    IF Len(rows) > Len(a) THEN rows
    ELSE LcsRows(a, b, Append(rows, LcsRow(a[Len(rows)], b, rows[Len(rows)])))

\* length of a longest common subsequence of a and b
lcs_len(a, b) ==
    IF Len(a) = 0 \/ Len(b) = 0 THEN 0
    ELSE LcsRows(a, b, <<[j \in 1..Len(b) |-> 0]>>)[Len(a) + 1][Len(b)]

\* int(round(x)) for x = num / den: Python rounds a half to the even integer
round_half_even(num, den) ==
    LET q == num \div den
        r == num % den
    IN  IF 2 * r > den THEN q + 1
        ELSE IF 2 * r < den THEN q
        ELSE IF q % 2 = 0 THEN q ELSE q + 1

\* fuzz.ratio: the normalised Indel similarity, 200 * lcs / (len a + len b)
ratio(a, b) ==
    IF Len(a) + Len(b) = 0 THEN 100
    ELSE round_half_even(200 * lcs_len(a, b), Len(a) + Len(b))

\* the windows of the longer string that the shorter one (of length m) is
\* aligned with: the prefixes shorter than m, every substring of length m,
\* and the suffixes shorter than m
windows(m, long) ==
    LET n == Len(long)
    IN  {SubSeq(long, 1, i) : i \in 1..(m - 1)}
        \cup {SubSeq(long, i, i + m - 1) : i \in 1..(n - m + 1)}
        \cup {SubSeq(long, i, n) : i \in (n - m + 2)..n}

\* best ratio of short against a window of long; Len(short) <= Len(long)
partial_ratio_impl(short, long) ==
    MaxOf({ratio(short, w) : w \in windows(Len(short), long)})

\* the shorter string is aligned with the longer one; strings of one length
\* are aligned both ways
partial_ratio_aligned(short, long) ==
    Max(partial_ratio_impl(short, long),
        IF Len(short) = Len(long) THEN partial_ratio_impl(long, short) ELSE 0)

\* fuzz.partial_ratio as computed
partial_ratio_calc(s1, s2) ==
    IF Len(s1) = 0 \/ Len(s2) = 0 THEN 0
    ELSE IF Len(s1) <= Len(s2) THEN partial_ratio_aligned(s1, s2)
    ELSE partial_ratio_aligned(s2, s1)

-----------------------------------------------------------------------------
(* Muscle Detection *)

muscle_keywords ==
    <<
       [group |-> "Chest", keywords |-> <<
           <<"b","e","n","c","h">>,
           <<"p","r","e","s","s">>,
           <<"p","e","c">>,
           <<"f","l","y">>,
           <<"i","n","c","l","i","n","e">>,
           <<"d","e","c","l","i","n","e">>>>],
       [group |-> "Back", keywords |-> <<
           <<"r","o","w">>,
           <<"p","u","l","l">>,
           <<"l","a","t">>,
           <<"d","e","a","d","l","i","f","t">>>>],
       [group |-> "Shoulders", keywords |-> <<
           <<"s","h","o","u","l","d","e","r">>,
           <<"o","v","e","r","h","e","a","d">>,
           <<"m","i","l","i","t","a","r","y">>,
           <<"l","a","t","e","r","a","l">>,
           <<"r","a","i","s","e">>>>],
       [group |-> "Biceps", keywords |-> <<
           <<"c","u","r","l">>,
           <<"b","i","c","e","p","s">>,
           <<"p","r","e","a","c","h","e","r">>>>],
       [group |-> "Triceps", keywords |-> <<
           <<"t","r","i","c","e","p","s">>,
           <<"d","i","p","s">>,
           <<"p","u","s","h","d","o","w","n">>,
           <<"e","x","t","e","n","s","i","o","n">>>>],
       [group |-> "Forearms", keywords |-> <<
           <<"r","e","v","e","r","s","e">>,
           <<"w","r","i","s","t">>,
           <<"h","a","m","m","e","r">>,
           <<"f","o","r","e","a","r","m">>>>],
       [group |-> "Legs", keywords |-> <<
           <<"s","q","u","a","t">>,
           <<"l","e","g">>,
           <<"l","u","n","g","e">>,
           <<"h","a","m","s","t","r","i","n","g">>,
           <<"q","u","a","d">>,
           <<"c","a","l","f">>>>],
       [group |-> "Core", keywords |-> <<
           <<"a","b","s">>,
           <<"c","r","u","n","c","h">>,
           <<"p","l","a","n","k">>,
           <<"s","i","t","-","u","p">>,
           <<"c","o","r","e">>>>]
    >>

\* every keyword of the table
keyword_set ==
    UNION {{muscle_keywords[g].keywords[k] : k \in 1..Len(muscle_keywords[g].keywords)} :
           g \in 1..Len(muscle_keywords)}

\* the exercise names the model's inputs can produce or query, lower-cased
known_names == {lower(strip(title(n))) : n \in KnownRaw} \cup {lower(n) : n \in KnownRaw}

\* the exercise names that can be in the log, lower-cased
log_names == {lower(strip(title(n))) : n \in LogRaw}

\* partial_ratio_calc, tabulated once over the strings the model can compare:
\* score_table[s2][s1]
score_table ==
    [b \in known_names |->
        ([a \in keyword_set \cup log_names |-> partial_ratio_calc(a, b)] @@ <<>>)] @@ <<>>

\* a tabulated value, or the value computed
row_lookup(row, s1, s2) ==
    IF s1 \in DOMAIN row THEN row[s1] ELSE partial_ratio_calc(s1, s2)

lookup(table, s1, s2) ==
    IF s2 \in DOMAIN table THEN row_lookup(table[s2], s1, s2) ELSE partial_ratio_calc(s1, s2)

\* fuzz.partial_ratio
partial_ratio(s1, s2) == lookup(score_table, s1, s2)

all_muscles ==
    [i \in 1..Len(muscle_keywords) |-> muscle_keywords[i].group] \o <<"Other">>

MuscleScoreMin == 80

\* detect_step with a score equal to the best one replacing it
detect_step_last_wins(score, group, best) ==
    IF score >= best.best_score /\ score >= MuscleScoreMin
    THEN [best_match |-> group, best_score |-> score]
    ELSE best

\* the body of the inner loop: a keyword replaces the best match only when its
\* score is strictly greater than the best score so far and at least 80
detect_step(score, group, best) ==
    IF score > best.best_score /\ score >= MuscleScoreMin
    THEN [best_match |-> group, best_score |-> score]
    ELSE best

RECURSIVE scan_keywords(_, _, _, _)
\* the inner loop over one group's keywords; seen[k + 1] is (best_match,
\* best_score) after the k-th keyword, seen[1] the value on entry
scan_keywords(name, group, keywords, seen) ==
    IF Len(seen) > Len(keywords) THEN seen
    ELSE scan_keywords(name, group, keywords,
             Append(seen, detect_step(partial_ratio(keywords[Len(seen)], name),
                                      group, seen[Len(seen)])))

RECURSIVE scan_groups(_, _)
\* the outer loop over muscle_keywords.items(), in the order of the literal;
\* seen[g + 1] is (best_match, best_score) after the g-th group
scan_groups(name, seen) ==
    IF Len(seen) > Len(muscle_keywords) THEN seen
    ELSE scan_groups(name,
             Append(seen, Last(scan_keywords(name, muscle_keywords[Len(seen)].group,
                                             muscle_keywords[Len(seen)].keywords,
                                             <<Last(seen)>>))))

detect_body_part(exercise_name) ==
    Last(scan_groups(lower(exercise_name), <<[best_match |-> None, best_score |-> 0]>>)).best_match

IntensityLow == 6
IntensityHigh == 12

\* detect_intensity with the lower band closed at its upper end
detect_intensity_shifted(reps) ==
    IF reps <= IntensityLow THEN "Too Heavy"
    ELSE IF reps <= IntensityHigh THEN "Moderate Heavy"
    ELSE "Light Weight"

detect_intensity(reps) ==
    IF reps < IntensityLow THEN "Too Heavy"
    ELSE IF IntensityLow <= reps /\ reps <= IntensityHigh THEN "Moderate Heavy"
    ELSE "Light Weight"

-----------------------------------------------------------------------------
(* int() and float() on the text of an input widget *)

DigitVal(c) == digit_map[c]

RECURSIVE DigitsValue(_)
DigitsValue(s) ==
    IF Len(s) = 0 THEN 0
    ELSE 10 * DigitsValue(SubSeq(s, 1, Len(s) - 1)) + DigitVal(s[Len(s)])

Signed(s) == Len(s) > 0 /\ s[1] \in {"+", "-"}
Unsigned(s) == IF Signed(s) THEN Tail(s) ELSE s
Sign(s) == IF Signed(s) /\ s[1] = "-" THEN -1 ELSE 1

\* int(text): surrounding whitespace, an optional sign, then digits only;
\* anything else raises ValueError (ok = FALSE)
parse_int(text) ==
    LET s    == strip(text)
        body == Unsigned(s)
        ok   == Len(body) > 0 /\ \A i \in 1..Len(body) : IsDigit(body[i])
    IN  [ok |-> ok, value |-> IF ok THEN Sign(s) * DigitsValue(body) ELSE 0]

\* float(text), in tenths: surrounding whitespace, an optional sign, digits
\* with at most one point and at least one digit. The model's inputs have at
\* most one digit after the point and no exponent, "inf" or "nan".
parse_float(text) ==
    LET s      == strip(text)
        body   == Unsigned(s)
        points == {i \in 1..Len(body) : body[i] = "."}
        p      == IF points = {} THEN Len(body) + 1 ELSE CHOOSE i \in points : TRUE
        whole  == SubSeq(body, 1, p - 1)
        frac   == SubSeq(body, p + 1, Len(body))
        ok     == /\ Cardinality(points) <= 1
                  /\ Len(whole) + Len(frac) > 0
                  /\ \A i \in 1..Len(whole) : IsDigit(whole[i])
                  /\ \A i \in 1..Len(frac) : IsDigit(frac[i])
    IN  [ok |-> ok,
         value |-> IF ok
                   THEN Sign(s) * (10 * DigitsValue(whole)
                                   + (IF Len(frac) > 0 THEN DigitVal(frac[1]) ELSE 0))
                   ELSE 0]
-----------------------------------------------------------------------------
(* The log file *)

\* one line of log_rows / of the CSV: the columns of the DataFrame
Row(d, name, body_part, s, weight, reps, volume, intensity) ==
    [date |-> d, exercise |-> name, body_part |-> body_part, set |-> s,
     weight |-> weight, reps |-> reps, volume |-> volume, intensity |-> intensity]

NoFile == [exists |-> FALSE, headers |-> 0, rows |-> <<>>]

\* append_log with the file opened for writing instead of appending
append_log_truncating(df, file) ==
    [exists |-> TRUE, headers |-> 1, rows |-> df]

\* df.to_csv(LOG_FILE, mode='a', index=False, header=not os.path.exists(LOG_FILE))
append_log(df, file) ==
    [exists  |-> TRUE,
     headers |-> file.headers + (IF file.exists THEN 0 ELSE 1),
     rows    |-> file.rows \o df]

\* Series.unique(): the distinct values in order of first appearance
unique(s) ==
    LET first == {i \in 1..Len(s) : \A j \in 1..(i - 1) : s[j] # s[i]}
        nth(k) == CHOOSE i \in first : Cardinality({j \in first : j < i}) = k - 1
    IN  [k \in 1..Cardinality(first) |-> s[nth(k)]]

\* the processor process.extractOne applies to the query and to every choice:
\* what is not a letter or a digit becomes a space, then lower-case, trimmed
full_process(s) ==
    strip(lower(Text([i \in 1..Len(s) |->
                        IF IsCased(s[i]) \/ IsDigit(s[i]) THEN s[i] ELSE " "])))

\* the choice with the highest score, the first of them on a tie
best_choice(choices, scores) ==
    LET best == CHOOSE i \in 1..Len(choices) :
                    /\ \A j \in 1..Len(choices) : scores[i] >= scores[j]
                    /\ \A j \in 1..(i - 1) : scores[j] < scores[i]
    IN  [best_match |-> choices[best], score |-> scores[best]]

\* process.extractOne(query, choices, scorer=fuzz.partial_ratio)
extractOne(query, choices) ==
    best_choice(choices,
                Text([i \in 1..Len(choices) |->
                         partial_ratio(full_process(query), full_process(choices[i]))]))

\* df.sort_values(by="date", ascending=False): the rows of the latest date
\* first; rows of one date keep their order
RECURSIVE sort_by_date_desc(_)
sort_by_date_desc(rows) ==
    IF rows = <<>> THEN <<>>
    ELSE LET latest == CHOOSE d \in {rows[i].date : i \in 1..Len(rows)} :
                           \A i \in 1..Len(rows) : rows[i].date <= d
             IsLatest(r) == r.date = latest
             IsOlder(r)  == r.date # latest
         IN  SelectSeq(rows, IsLatest) \o sort_by_date_desc(SelectSeq(rows, IsOlder))

HistoryScoreMin == 85
RecentDates == 2

\* keep_recent without the cut to the two latest dates
keep_every_date(sorted, dates) == sorted

\* df["date"].unique()[:2], then df[df["date"].isin(recent_dates)]
keep_recent(sorted, dates) ==
    LET recent_dates == {dates[i] : i \in 1..(IF Len(dates) < RecentDates
                                              THEN Len(dates) ELSE RecentDates)}
        IsRecent(r)  == r.date \in recent_dates
    IN  SelectSeq(sorted, IsRecent)

\* the column "date" of a frame
date_column(df) == Text([i \in 1..Len(df) |-> df[i].date])

\* the branch taken on the best match found
matched_logs(df, found) ==
    LET SameExercise(r) == lower(r.exercise) = lower(found.best_match)
        recent(sorted)  == keep_recent(sorted, unique(date_column(sorted)))
    IN  IF found.score >= HistoryScoreMin
        THEN recent(sort_by_date_desc(SelectSeq(df, SameExercise)))
        ELSE <<>>

get_previous_logs(exercise_name, file) ==
    IF ~file.exists THEN <<>>
    ELSE IF file.rows = <<>> THEN <<>>
    ELSE matched_logs(file.rows,
                      extractOne(lower(exercise_name),
                                 unique(Text([i \in 1..Len(file.rows) |-> file.rows[i].exercise]))))

-----------------------------------------------------------------------------
(* render_exercise_block *)

NoVerdict == [kind |-> "none", last_reps |-> 0, target_reps |-> 0]

\* verdict with the first comparison taken as "not more than"
verdict_not_more(reps, last_reps) ==
    [kind        |-> IF reps <= last_reps THEN "Regression"
                     ELSE IF reps = last_reps THEN "Match"
                     ELSE "Improvement",
     last_reps   |-> last_reps,
     target_reps |-> last_reps + 1]

\* the three branches of the progress suggestion
verdict(reps, last_reps) ==
    [kind        |-> IF reps < last_reps THEN "Regression"
                     ELSE IF reps = last_reps THEN "Match"
                     ELSE "Improvement",
     last_reps   |-> last_reps,
     target_reps |-> last_reps + 1]

\* prev_logs[(prev_logs["weight"] == weight) & (prev_logs["set"] == s)]
same_weight_set(prev_logs, weight, s) ==
    LET Same(r) == r.weight = weight /\ r.set = s
    IN  SelectSeq(prev_logs, Same)

\* same_weight_set.sort_values("date").iloc[-1]["reps"]: the reps of a row of
\* the latest date. The sort is not a stable one, so among several rows of
\* that date any may come last: every such row's reps is a possible value.
last_reps_values(rows) ==
    {rows[i].reps : i \in {i \in 1..Len(rows) : \A j \in 1..Len(rows) : rows[j].date <= rows[i].date}}

\* the verdicts the progress suggestion can show for one set
progress(prev_logs, s, weight, reps) ==
    IF prev_logs = <<>> THEN {NoVerdict}
    ELSE LET same == same_weight_set(prev_logs, weight, s)
         IN  IF same = <<>> THEN {NoVerdict}
             ELSE {verdict(reps, last) : last \in last_reps_values(same)}

\* float(weight_input) if weight_input else 0.0, and the except branch
read_weight(weight_input) ==
    IF weight_input = <<>> THEN [value |-> 0, warning |-> FALSE]
    ELSE LET p == parse_float(weight_input)
         IN  IF p.ok THEN [value |-> p.value, warning |-> FALSE]
             ELSE [value |-> 0, warning |-> TRUE]

\* int(reps_input) if reps_input else 0, and the except branch
read_reps(reps_input) ==
    IF reps_input = <<>> THEN [value |-> 0, warning |-> FALSE]
    ELSE LET p == parse_int(reps_input)
         IN  IF p.ok THEN [value |-> p.value, warning |-> FALSE]
             ELSE [value |-> 0, warning |-> TRUE]

\* entry_of with the volume taken from the set number instead of the reps
entry_of_by_set(s, e, w, r) ==
    [set          |-> s,
     weight_input |-> e.weight_input,
     reps_input   |-> e.reps_input,
     weight       |-> w.value,
     reps         |-> r.value,
     warnings     |-> (IF w.warning THEN {"Invalid weight"} ELSE {})
                      \cup (IF r.warning THEN {"Invalid reps"} ELSE {}),
     volume       |-> w.value * s,
     intensity    |-> detect_intensity(r.value)]

\* the values one pass of the loop over the sets computes before the progress
\* suggestion, from what the two try blocks produced
entry_of(s, e, w, r) ==
    [set          |-> s,
     weight_input |-> e.weight_input,
     reps_input   |-> e.reps_input,
     weight       |-> w.value,
     reps         |-> r.value,
     warnings     |-> (IF w.warning THEN {"Invalid weight"} ELSE {})
                      \cup (IF r.warning THEN {"Invalid reps"} ELSE {}),
     volume       |-> w.value * r.value,
     intensity    |-> detect_intensity(r.value)]

set_entry(s, e) == entry_of(s, e, read_weight(e.weight_input), read_reps(e.reps_input))

\* name = raw.title().strip() if raw else ""
name_of(raw) == IF raw = <<>> THEN <<>> ELSE strip(title(raw))

Unnamed(block_id, raw) ==
    [id |-> block_id, raw |-> raw, name |-> <<>>, detected |-> None, body_part |-> None,
     prev_logs |-> <<>>, sets |-> 0, entries |-> <<>>, verdicts |-> <<>>]

\* the sequences that take their i-th element from the i-th set of a sequence
\* of sets
one_of_each(choices) ==
    {r \in [1..Len(choices) -> UNION {choices[i] : i \in 1..Len(choices)}] :
        \A i \in 1..Len(choices) : r[i] \in choices[i]}

\* what a named block shows and computes, given the verdicts shown for its sets
shown_block(block_id, inp, name, detected, prev_logs, entries, verdicts) ==
    {[id |-> block_id, raw |-> inp.raw, name |-> name,
      detected |-> detected,
      body_part |-> IF detected # None THEN detected ELSE inp.manual,
      prev_logs |-> prev_logs, sets |-> inp.sets,
      entries |-> entries, verdicts |-> v] : v \in verdicts}

\* the loop over the sets of a named block: the entries and, per set, one of
\* the verdicts that can be shown
render_sets(block_id, inp, name, detected, prev_logs, entries) ==
    shown_block(block_id, inp, name, detected, prev_logs, entries,
                one_of_each(Text([s \in 1..inp.sets |->
                                     progress(prev_logs, s, entries[s].weight, entries[s].reps)])))

render_named(block_id, inp, name, file) ==
    render_sets(block_id, inp, name, detect_body_part(name), get_previous_logs(name, file),
                Text([s \in 1..inp.sets |-> set_entry(s, inp.entries[s])]))

\* what rendering one block can show and compute, given the widgets' values
\* inp = [raw, manual, sets, entries]
render_exercise_block(block_id, inp, file) ==
    IF name_of(inp.raw) = <<>> THEN {Unnamed(block_id, inp.raw)}
    ELSE render_named(block_id, inp, name_of(inp.raw), file)

\* block_rows with a set that raised a warning skipped
block_rows_valid_only(d, b) ==
    LET Valid(r) == b.entries[r.set].warnings = {}
    IN  SelectSeq([s \in 1..b.sets |->
                      Row(d, b.name, b.body_part, s, b.entries[s].weight, b.entries[s].reps,
                          b.entries[s].volume, b.entries[s].intensity)], Valid)

\* log_rows.append([date, name, body_part, s, weight, reps, volume, intensity])
block_rows(d, b) ==
    [s \in 1..b.sets |->
        Row(d, b.name, b.body_part, s, b.entries[s].weight, b.entries[s].reps,
            b.entries[s].volume, b.entries[s].intensity)]

RECURSIVE rows_of(_, _)
\* log_rows once the blocks shown have been rendered in order
rows_of(d, shown) ==
    IF shown = <<>> THEN <<>>
    ELSE block_rows(d, Head(shown)) \o rows_of(d, Tail(shown))

\* the possible results of rendering every block of the list in one script run
render_all(blocks, inputs, file) ==
    one_of_each(Text([i \in 1..Len(blocks) |->
                         render_exercise_block(blocks[i], inputs[i], file)]))
-----------------------------------------------------------------------------
(* Script runs: every interaction reruns the script from the top *)

\* the values a user can leave in one block's widgets: a raw name that renders
\* no further widget, or a name with a number of sets and, per set, the two
\* text inputs; the manual select box exists only when no group is detected
BlockInputs(names, manual, sets, entries) ==
    {[raw |-> n, manual |-> None, sets |-> 0, entries |-> <<>>] :
        n \in {n \in names : name_of(n) = <<>>}}
    \cup UNION {UNION {{[raw |-> n, manual |-> m, sets |-> k, entries |-> e] :
                          m \in (IF detect_body_part(name_of(n)) = None THEN manual ELSE {None}),
                          e \in [1..k -> entries]} :
                       k \in sets} :
                n \in {n \in names : name_of(n) # <<>>}}

Entry(w, r) == [weight_input |-> w, reps_input |-> r]

\* the script body up to the buttons: the date and, for the block list, one
\* rendering of every block against the log as it is when the run starts
Render(blocks, dom, file) ==
    \E d \in dom.dates, inputs \in [1..Len(blocks) -> dom.blocks] :
        \E r \in render_all(blocks, inputs, file) :
            /\ rendered' = r
            /\ log_rows' = rows_of(d, r)

\* a run in which no button is pressed (a widget was edited)
Rerun(dom) ==
    /\ Render(exercise_blocks, dom, log_file)
    /\ outcome' = "none"
    /\ UNCHANGED <<exercise_blocks, next_id, log_file, saves, call>>

\* "Add Exercise": the block is appended and st.rerun() renders the new list
AddExercise(cap, dom) ==
    /\ next_id < cap
    /\ exercise_blocks' = Append(exercise_blocks, next_id)
    /\ next_id' = next_id + 1
    /\ Render(exercise_blocks', dom, log_file)
    /\ outcome' = "none"
    /\ UNCHANGED <<log_file, saves, call>>

\* DeleteBlock with the delete button offered on the first block too
DeleteAnyBlock(dom) ==
    \E i \in 1..Len(exercise_blocks) :
        LET block_id == exercise_blocks[i]
            Keep(b)  == b # block_id
        IN  /\ exercise_blocks' = SelectSeq(exercise_blocks, Keep)
            /\ Render(exercise_blocks', dom, log_file)
            /\ outcome' = "none"
            /\ UNCHANGED <<next_id, log_file, saves, call>>

\* the delete button of a block that is not the first one: the list is
\* filtered by id and st.rerun() renders what is left
DeleteBlock(dom) ==
    \E i \in 2..Len(exercise_blocks) :
        LET block_id == exercise_blocks[i]
            Keep(b)  == b # block_id
        IN  /\ exercise_blocks' = SelectSeq(exercise_blocks, Keep)
            /\ Render(exercise_blocks', dom, log_file)
            /\ outcome' = "none"
            /\ UNCHANGED <<next_id, log_file, saves, call>>

\* SaveWorkoutLog without the test that there are rows
SaveWorkoutLogUnchecked(cap, dom) ==
    /\ saves < cap
    /\ Render(exercise_blocks, dom, log_file)
    /\ log_file' = append_log(log_rows', log_file)
    /\ outcome' = "saved"
    /\ saves' = saves + 1
    /\ UNCHANGED <<exercise_blocks, next_id, call>>

\* "Save Workout Log": the rows collected by this run are appended, or the
\* warning is shown when there are none
SaveWorkoutLog(cap, dom) ==
    /\ saves < cap
    /\ Render(exercise_blocks, dom, log_file)
    /\ IF log_rows' # <<>>
       THEN /\ log_file' = append_log(log_rows', log_file)
            /\ outcome' = "saved"
            /\ saves' = saves + 1
       ELSE /\ outcome' = "warning"
            /\ UNCHANGED <<log_file, saves>>
    /\ UNCHANGED <<exercise_blocks, next_id, call>>

\* a call of detect_body_part
CallDetectBodyPart(names) ==
    \E n \in names :
        /\ call' = [call EXCEPT !.exercise_name = n, !.body_part = detect_body_part(n)]
        /\ UNCHANGED <<exercise_blocks, next_id, log_file, rendered, log_rows, outcome, saves>>

\* a call of detect_intensity
CallDetectIntensity(lo, hi) ==
    \E r \in lo..hi :
        /\ call' = [call EXCEPT !.reps = r, !.intensity = detect_intensity(r)]
        /\ UNCHANGED <<exercise_blocks, next_id, log_file, rendered, log_rows, outcome, saves>>

Init ==
    /\ exercise_blocks = <<0>>
    /\ next_id = 1
    /\ log_file = NoFile
    /\ rendered = <<Unnamed(0, <<>>)>>
    /\ log_rows = <<>>
    /\ outcome = "none"
    /\ saves = 0
    /\ call = [exercise_name |-> <<>>, body_part |-> detect_body_part(<<>>),
               reps |-> 0, intensity |-> detect_intensity(0)]

-----------------------------------------------------------------------------
(* Bounds and input alphabets *)

MaxDate == 3
MaxId == 2
MaxSaves == 2
MaxSessionId == 7
MaxReps == 14
MaxHistDate == 3
MaxHistSaves == 3
MaxProgDate == 2
MaxProgSaves == 2

\* the options of the manual select box
Options == {all_muscles[i] : i \in 1..Len(all_muscles)}

\* nothing typed yet
Blank == [dates |-> {1}, blocks |-> BlockInputs({<<>>}, Options, {}, {})]

\* a block left unnamed, or "row" with three sets: 60 kg x 8, a weight that
\* is no number x 13, and an empty weight with reps that are no number
MainBlocks ==
    {[raw |-> <<>>, manual |-> None, sets |-> 0, entries |-> <<>>],
     [raw |-> TxtRow, manual |-> None, sets |-> 3,
      entries |-> <<Entry(Txt60, Txt8), Entry(TxtAbc, Txt13), Entry(<<>>, TxtX)>>]}

MainDom == [dates |-> 1..MaxDate, blocks |-> MainBlocks]

\* the session and the store: blocks are added and deleted, workouts saved
Next ==
    \/ SaveWorkoutLog(MaxSaves, MainDom)
    \/ AddExercise(MaxId, Blank)
    \/ DeleteBlock(Blank)

Spec == Init /\ [][Next]_vars

\* the two pure classifiers, called on their own
NextFn ==
    \/ CallDetectBodyPart(FnNames)
    \/ CallDetectIntensity(0 - MaxReps, MaxReps)

SpecFn == Init /\ [][NextFn]_vars

\* the block list alone
NextSession ==
    \/ AddExercise(MaxSessionId, Blank)
    \/ DeleteBlock(Blank)

SpecSession == Init /\ [][NextSession]_vars

\* one block with one set of 60 kg x 8: "row" or "curl" is saved on any date,
\* and the history is looked up for "row", "ROWS " or "curl"
HistSaved ==
    [dates  |-> 1..MaxHistDate,
     blocks |-> BlockInputs({TxtRow, TxtCurl}, Options, {1}, {Entry(Txt60, Txt8)})]

HistViewed ==
    [dates  |-> {1},
     blocks |-> BlockInputs({TxtRow, TxtRows, TxtCurl}, Options, {1}, {Entry(Txt60, Txt8)})]

NextHistory ==
    \/ SaveWorkoutLog(MaxHistSaves, HistSaved)
    \/ Rerun(HistViewed)

SpecHistory == Init /\ [][NextHistory]_vars

\* one block named "row": a set of 60 kg x 8, of 60 kg x 13, of no weight x 8,
\* or two sets of 60 kg x 13 and 60 kg x 8
ProgBlocks ==
    {[raw |-> TxtRow, manual |-> None, sets |-> 1, entries |-> <<Entry(Txt60, Txt8)>>],
     [raw |-> TxtRow, manual |-> None, sets |-> 1, entries |-> <<Entry(Txt60, Txt13)>>],
     [raw |-> TxtRow, manual |-> None, sets |-> 1, entries |-> <<Entry(TxtAbc, Txt8)>>],
     [raw |-> TxtRow, manual |-> None, sets |-> 2,
      entries |-> <<Entry(Txt60, Txt13), Entry(Txt60, Txt8)>>]}

ProgDom == [dates |-> 1..MaxProgDate, blocks |-> ProgBlocks]

NextProgress ==
    \/ SaveWorkoutLog(MaxProgSaves, ProgDom)
    \/ Rerun(ProgDom)

SpecProgress == Init /\ [][NextProgress]_vars

-----------------------------------------------------------------------------
(* Properties *)

\* the named blocks of a rendering
Named(shown) == {i \in 1..Len(shown) : shown[i].name # <<>>}

\* C1: the log file is append-only. In every step the rows the file held
\* before the step are a prefix of the rows it holds after it, unchanged and
\* in the same order, and a step that saves puts the rows of the saved batch
\* right after them.
C1_AppendOnly ==
    [][/\ Len(log_file.rows) <= Len(log_file'.rows)
       /\ SubSeq(log_file'.rows, 1, Len(log_file.rows)) = log_file.rows
       /\ outcome' = "saved" => log_file'.rows = log_file.rows \o log_rows']_vars

\* C1 witness: a second batch has been saved after the rows of a first one
C1_Witness ==
    /\ outcome = "saved"
    /\ saves = 2
    /\ Len(log_file.rows) > Len(log_rows)
    /\ log_rows # <<>>

\* the score process.extractOne gives a historical name for a query
HistoryScore(query, choice) ==
    partial_ratio(full_process(lower(query)), full_process(choice))

\* the rows of a file, by position, that carry a name case-insensitively
RowsNamed(file, n) ==
    {k \in 1..Len(file.rows) : lower(file.rows[k].exercise) = lower(n)}

\* of a set of rows of a file, those on one of its two most recent dates
OnRecentDates(file, mine) ==
    LET dates == {file.rows[k].date : k \in mine}
        recent == {d \in dates : Cardinality({e \in dates : e > d}) < 2}
    IN  {k \in mine : file.rows[k].date \in recent}

\* a result holds exactly the rows of a file at the positions keep, each as
\* often as it occurs there
ExactlyRows(result, file, keep) ==
    /\ Len(result) = Cardinality(keep)
    /\ \A k \in keep :
          Cardinality({j \in 1..Len(result) : result[j] = file.rows[k]})
              = Cardinality({j \in keep : file.rows[j] = file.rows[k]})

\* what C2 says of the result for a name read against a file
PreviousLogsAsSpecified(name, file, result) ==
    IF ~file.exists \/ file.rows = <<>> THEN result = <<>>
    ELSE LET names == {file.rows[k].exercise : k \in 1..Len(file.rows)}
             best  == MaxOf({HistoryScore(name, n) : n \in names})
         IN  IF best < 85 THEN result = <<>>
             ELSE \E n \in names :
                     /\ HistoryScore(name, n) = best
                     /\ ExactlyRows(result, file, OnRecentDates(file, RowsNamed(file, n)))

\* C2: in every script run, the previous logs found for a named block are
\* empty when the log file is absent or empty or when the best score of the
\* name over the distinct names in the file is below 85; otherwise they are
\* exactly the rows of the file whose exercise equals a best-scoring name
\* case-insensitively and whose date is one of the two most recent distinct
\* dates of those rows.
C2_PreviousLogs ==
    [][\A i \in Named(rendered') :
          PreviousLogsAsSpecified(rendered'[i].name, log_file, rendered'[i].prev_logs)]_vars

\* C2 witness: a run found previous logs on two dates in a file that holds
\* the matched exercise on three dates, under a name spelled differently
C2_Witness ==
    \E i \in Named(rendered) :
        /\ Cardinality({rendered[i].prev_logs[k].date :
                           k \in 1..Len(rendered[i].prev_logs)}) = 2
        /\ rendered[i].prev_logs[1].exercise # rendered[i].name
        /\ Cardinality({log_file.rows[k].date :
                           k \in RowsNamed(log_file, rendered[i].prev_logs[1].exercise)}) = 3
        /\ outcome = "none"

\* the history rows, by position, with the set number and the weight of an entry
Comparable(b, s) ==
    {k \in 1..Len(b.prev_logs) :
        b.prev_logs[k].set = s /\ b.prev_logs[k].weight = b.entries[s].weight}

\* C3: for every set of a named block, no verdict is shown when no row of the
\* previous logs has the set number and the weight entered; otherwise one
\* verdict is shown, with last_reps the reps of a matching row of the latest
\* date and target_reps = last_reps + 1: Regression when the reps entered are
\* fewer than last_reps, Match when equal, Improvement when more.
C3_ProgressVerdict ==
    \A i \in Named(rendered) :
        \A s \in 1..rendered[i].sets :
            LET b == rendered[i]
                v == b.verdicts[s]
                M == Comparable(b, s)
            IN  IF M = {} THEN v.kind = "none"
                ELSE \E k \in M :
                        /\ \A j \in M : b.prev_logs[j].date <= b.prev_logs[k].date
                        /\ v.last_reps = b.prev_logs[k].reps
                        /\ v.target_reps = b.prev_logs[k].reps + 1
                        /\ b.entries[s].reps < v.last_reps => v.kind = "Regression"
                        /\ b.entries[s].reps = v.last_reps => v.kind = "Match"
                        /\ b.entries[s].reps > v.last_reps => v.kind = "Improvement"

\* C3 witness: a set matched the reps of the latest of two comparable rows of
\* different dates and different reps
C3_Witness ==
    \E i \in Named(rendered) :
        \E s \in 1..rendered[i].sets :
            /\ rendered[i].verdicts[s].kind = "Match"
            /\ \E j, k \in Comparable(rendered[i], s) :
                  /\ rendered[i].prev_logs[j].date < rendered[i].prev_logs[k].date
                  /\ rendered[i].prev_logs[j].reps # rendered[i].prev_logs[k].reps

\* the (category, keyword) pairs by position, and their declared order
KeywordPairs ==
    UNION {{<<g, k>> : k \in 1..Len(muscle_keywords[g].keywords)} :
              g \in 1..Len(muscle_keywords)}

DeclaredBefore(p, q) == p[1] < q[1] \/ (p[1] = q[1] /\ p[2] < q[2])

PairScore(p, name) == partial_ratio(muscle_keywords[p[1]].keywords[p[2]], lower(name))

\* the pairs that attain the maximum score for a name
TopPairs(name) ==
    {p \in KeywordPairs : \A q \in KeywordPairs : PairScore(q, name) <= PairScore(p, name)}

\* C4: detect_body_part returns None when no (category, keyword) pair scores
\* at least 80 against the lower-cased name; otherwise it returns the category
\* of the first pair in declared order that attains the maximum score.
C4_FirstBestCategory ==
    LET name == call.exercise_name
    IN  IF \A p \in KeywordPairs : PairScore(p, name) < 80
        THEN call.body_part = None
        ELSE \E p \in TopPairs(name) :
                /\ \A q \in TopPairs(name) : ~DeclaredBefore(q, p)
                /\ call.body_part = muscle_keywords[p[1]].group

\* C4 witness: a name for which pairs of two categories attain the maximum
\* score, classified as the category declared first
C4_Witness ==
    /\ call.exercise_name # <<>>
    /\ \E p, q \in TopPairs(call.exercise_name) :
          /\ p[1] < q[1]
          /\ PairScore(p, call.exercise_name) >= 80
          /\ call.body_part = muscle_keywords[p[1]].group
          /\ \A r \in TopPairs(call.exercise_name) : ~DeclaredBefore(r, p)

\* C5: detect_intensity returns "Too Heavy" for reps below 6, zero included,
\* "Moderate Heavy" for reps from 6 to 12, and "Light Weight" for reps above 12.
C5_IntensityBands ==
    /\ call.reps < 6 => call.intensity = "Too Heavy"
    /\ (6 <= call.reps /\ call.reps <= 12) => call.intensity = "Moderate Heavy"
    /\ call.reps > 12 => call.intensity = "Light Weight"
    /\ call.intensity \in {"Too Heavy", "Moderate Heavy", "Light Weight"}

\* C5 witness: six reps, the lower end of the middle band
C5_Witness == call.reps = 6 /\ call.intensity = "Moderate Heavy"

\* C6: a run in which Save is pressed while no block has a name shows the
\* warning and leaves the log file as it was: no file is created, no header
\* and no row is written.
C6_EmptySaveRejected ==
    [][(outcome' # "none" /\ Named(rendered') = {})
          => (outcome' = "warning" /\ log_file' = log_file)]_vars

\* C6 witness: Save was rejected and there is still no file
C6_Witness ==
    /\ outcome = "warning"
    /\ Named(rendered) = {}
    /\ log_file = NoFile
    /\ Len(rendered) > 1

RECURSIVE SetsBefore(_, _)
\* the number of sets of the named blocks before position i of a rendering
SetsBefore(shown, i) ==
    IF i <= 1 THEN 0 ELSE SetsBefore(shown, i - 1) + shown[i - 1].sets

\* the batch holds one row per named block and set, in order, carrying the
\* values computed for the set
OneRowPerSet ==
    /\ Len(log_rows) = SetsBefore(rendered, Len(rendered) + 1)
    /\ \A i \in Named(rendered) :
          \A s \in 1..rendered[i].sets :
              LET r == log_rows[SetsBefore(rendered, i) + s]
                  e == rendered[i].entries[s]
              IN  /\ r.exercise = rendered[i].name
                  /\ r.set = s
                  /\ r.weight = e.weight
                  /\ r.reps = e.reps

\* C7 as amended: for every set of a named block, a weight or reps text that
\* is not empty and is no number is replaced by 0 with a warning for the set,
\* an empty text is taken as 0 without a warning, and the batch still holds
\* exactly one row per named block and set.
C7_MalformedInputRecovered ==
    /\ \A i \in Named(rendered) :
          \A s \in 1..rendered[i].sets :
              LET e == rendered[i].entries[s]
              IN  /\ (e.weight_input # <<>> /\ ~parse_float(e.weight_input).ok)
                        => (e.weight = 0 /\ "Invalid weight" \in e.warnings)
                  /\ (e.reps_input # <<>> /\ ~parse_int(e.reps_input).ok)
                        => (e.reps = 0 /\ "Invalid reps" \in e.warnings)
                  /\ e.weight_input = <<>>
                        => (e.weight = 0 /\ "Invalid weight" \notin e.warnings)
                  /\ e.reps_input = <<>>
                        => (e.reps = 0 /\ "Invalid reps" \notin e.warnings)
    /\ OneRowPerSet

\* C7 witness: a batch was saved from two named blocks, with a weight that is
\* no number, reps that are no number and an empty weight among their sets
C7_Witness ==
    /\ outcome = "saved"
    /\ Cardinality(Named(rendered)) = 2
    /\ \E i, j \in Named(rendered) :
          /\ \E s \in 1..rendered[i].sets :
                "Invalid weight" \in rendered[i].entries[s].warnings
          /\ \E s \in 1..rendered[j].sets :
                /\ "Invalid reps" \in rendered[j].entries[s].warnings
                /\ rendered[j].entries[s].weight_input = <<>>

\* C7 as stated: every weight or reps text that is no number, the empty text
\* included, is replaced by 0 with a warning for the set, and the batch holds
\* exactly one row per named block and set.
C7_AsStated ==
    /\ \A i \in Named(rendered) :
          \A s \in 1..rendered[i].sets :
              LET e == rendered[i].entries[s]
              IN  /\ ~parse_float(e.weight_input).ok
                        => (e.weight = 0 /\ "Invalid weight" \in e.warnings)
                  /\ ~parse_int(e.reps_input).ok
                        => (e.reps = 0 /\ "Invalid reps" \in e.warnings)
    /\ OneRowPerSet

\* C8: no two rows of the log file share the same date, exercise and set.
C8_SetIndexUnique ==
    \A j, k \in 1..Len(log_file.rows) :
        (/\ log_file.rows[j].date = log_file.rows[k].date
         /\ log_file.rows[j].exercise = log_file.rows[k].exercise
         /\ log_file.rows[j].set = log_file.rows[k].set) => j = k

\* C9: every row of the log file has volume = weight x reps and intensity =
\* detect_intensity(reps), whatever was defaulted to 0 and whatever verdict
\* was shown.
C9_DerivedColumns ==
    \A k \in 1..Len(log_file.rows) :
        /\ log_file.rows[k].volume = log_file.rows[k].weight * log_file.rows[k].reps
        /\ log_file.rows[k].intensity = detect_intensity(log_file.rows[k].reps)

\* C9 witness: a batch was saved while a verdict was shown for one of its
\* sets, and the file holds a row with a weight defaulted to 0 and a row with
\* a volume that is not 0
C9_Witness ==
    /\ outcome = "saved"
    /\ \E i \in Named(rendered) :
          \E s \in 1..rendered[i].sets : rendered[i].verdicts[s].kind # "none"
    /\ \E j, k \in 1..Len(log_file.rows) :
          /\ log_file.rows[j].weight = 0 /\ log_file.rows[j].reps > 0
          /\ log_file.rows[k].volume > 0

\* C10: the block list is never empty, its first block has id 0, its ids are
\* pairwise distinct, and next_id is greater than every id in it.
C10_BlockList ==
    /\ exercise_blocks # <<>>
    /\ exercise_blocks[1] = 0
    /\ \A i, j \in 1..Len(exercise_blocks) :
          exercise_blocks[i] = exercise_blocks[j] => i = j
    /\ \A i \in 1..Len(exercise_blocks) : exercise_blocks[i] < next_id

\* C10 witness: blocks were deleted and a block added after that
C10_Witness ==
    /\ next_id = 4
    /\ exercise_blocks = <<0, 3>>

====
